---- MODULE Spec2Model ----
(***************************************************************************)
(* One invocation of a command handler of carbot.py: /start (start) or     *)
(* /car, with its argument parsing (get_random_car), query translation     *)
(* (parse_car_query), the listings request and the selection / fallback    *)
(* policy (get_autodev_car).                                               *)
(*                                                                         *)
(* Strings that the code inspects character by character (the command      *)
(* arguments) are sequences of Unicode code points.  Python ints are       *)
(* unbounded and floats are IEEE doubles, both computed exactly.  JSON and  *)
(* Python values are records with the four fields kind, s, i, f.            *)
(***************************************************************************)
EXTENDS Integers, Sequences, FiniteSets, TLC

VARIABLES pc, command, args, amount, search_query, completion, additional_params,
          params, calls, completion_calls, listing_requests, response,
          replies

vars == <<pc, command, args, amount, search_query, completion, additional_params,
          params, calls, completion_calls, listing_requests, response,
          replies>>

(***************************************************************************)
(* Bounds of the model.                                                    *)
(***************************************************************************)
MaxArgs == 3
MaxPairs == 2
MaxRecords == 2

(***************************************************************************)
(* Python integers.  An int is unbounded: it is kept as a sign and its     *)
(* decimal digits, most significant first, without leading zeros (zero is  *)
(* the empty sequence).                                                    *)
(***************************************************************************)
Max(a, b) == IF a >= b THEN a ELSE b

RECURSIVE NatDigits(_)
NatDigits(n) == IF n = 0 THEN <<>> ELSE Append(NatDigits(n \div 10), n % 10)

\* the Python int of a small integer
PyInt(n) == [neg |-> n < 0, mag |-> NatDigits(IF n < 0 THEN 0 - n ELSE n)]

MagLess(x, y) ==
    \/ Len(x) < Len(y)
    \/ /\ Len(x) = Len(y)
       /\ \E i \in 1..Len(x) : /\ x[i] < y[i]
                               /\ \A j \in 1..(i - 1) : x[j] = y[j]

\* a < b on Python ints
IntLess(a, b) ==
    IF a.neg /\ ~b.neg THEN TRUE
    ELSE IF ~a.neg /\ b.neg THEN FALSE
    ELSE IF a.neg THEN MagLess(b.mag, a.mag)
    ELSE MagLess(a.mag, b.mag)

(***************************************************************************)
(* Natural numbers of any size as limbs of LimbBits bits, least            *)
(* significant first, without high zero limbs.                             *)
(***************************************************************************)
LimbBits == 5 * 3
LimbBase == 2 ^ LimbBits

Limb(a, i) == IF i >= 0 /\ i < Len(a) THEN a[i + 1] ELSE 0

Trim(a) ==
    LET nz == {i \in 1..Len(a) : a[i] # 0} IN
    IF nz = {} THEN <<>>
    ELSE SubSeq(a, 1, CHOOSE i \in nz : \A j \in nz : j <= i)

\* a * m + carry from limb i on, for m and carry below LimbBase
RECURSIVE MulSmallAdd(_, _, _, _)
MulSmallAdd(a, i, m, carry) ==
    IF i > Len(a) THEN (IF carry = 0 THEN <<>> ELSE <<carry>>)
    ELSE LET t == a[i] * m + carry IN
         <<t % LimbBase>> \o MulSmallAdd(a, i + 1, m, t \div LimbBase)

\* a + b from limb i on
RECURSIVE BigAdd(_, _, _, _)
BigAdd(a, b, i, carry) ==
    IF i > Len(a) /\ i > Len(b) THEN (IF carry = 0 THEN <<>> ELSE <<carry>>)
    ELSE LET t == Limb(a, i - 1) + Limb(b, i - 1) + carry IN
         <<t % LimbBase>> \o BigAdd(a, b, i + 1, t \div LimbBase)

\* a * b, row by row
RECURSIVE BigMul(_, _, _)
BigMul(a, b, i) ==
    IF i > Len(b) THEN <<>>
    ELSE BigAdd(MulSmallAdd(a, 1, b[i], 0), <<0>> \o BigMul(a, b, i + 1), 1, 0)

BitLen(a) ==
    IF a = <<>> THEN 0
    ELSE LimbBits * (Len(a) - 1)
         + (CHOOSE k \in 1..LimbBits : 2 ^ (k - 1) <= a[Len(a)] /\ a[Len(a)] < 2 ^ k)

Bit(a, k) == (Limb(a, k \div LimbBits) \div (2 ^ (k % LimbBits))) % 2

\* the LimbBits bits of a from bit p on (bits below bit 0 are zero)
LimbAtBit(a, p) ==
    LET q == p \div LimbBits
        r == p % LimbBits
    IN (Limb(a, q) \div (2 ^ r)) + (Limb(a, q + 1) % (2 ^ r)) * (2 ^ (LimbBits - r))

\* floor(a / 2^s); a * 2^(-s) when s is negative
ShiftRight(a, s) ==
    LET n == Max(0, (BitLen(a) - s + LimbBits - 1) \div LimbBits) IN
    Trim([j \in 1..n |-> LimbAtBit(a, s + LimbBits * (j - 1))])

\* acc * 10000^(hi - lo + 1) + the groups lo..hi of four decimal digits;
\* the groups are halved so that the nesting stays shallow, the left half
\* being computed before the right one starts
RECURSIVE DecToBig(_, _, _, _)
DecToBig(d, lo, hi, acc) ==
    IF lo > hi THEN acc
    ELSE IF lo = hi
    THEN LET pos == 4 * lo - 3
             chunk == 1000 * d[pos] + 100 * d[pos + 1] + 10 * d[pos + 2] + d[pos + 3]
         IN MulSmallAdd(acc, 1, 10000, chunk)
    ELSE LET mid == (lo + hi) \div 2
             left == DecToBig(d, lo, mid, acc)
         IN IF Len(left) >= 0 THEN DecToBig(d, mid + 1, hi, left) ELSE <<>>

\* the limbs of a magnitude given by its decimal digits
BigOfMag(mag) ==
    LET pad == (4 - (Len(mag) % 4)) % 4
        d == [i \in 1..pad |-> 0] \o mag
    IN Trim(DecToBig(d, 1, Len(d) \div 4, <<>>))

(***************************************************************************)
(* Python floats: IEEE 754 doubles.  A finite non-zero double is           *)
(* (-1)^neg * m * 2^e with 2^52 <= m < 2^53, m in limbs.                   *)
(***************************************************************************)
MantDig == 53
MaxExp == 1024

FloatZero == [cls |-> "zero", neg |-> FALSE, m |-> <<>>, e |-> 0]
FloatInf(neg) == [cls |-> "inf", neg |-> neg, m |-> <<>>, e |-> 0]

\* the double nearest to (-1)^neg * a * 2^e0 for a > 0, ties to even;
\* "inf" when it is 2^1024 or more
RoundToDouble(neg, a, e0) ==
    LET s == BitLen(a) - MantDig
        q == ShiftRight(a, s)
        up == /\ s > 0
              /\ Bit(a, s - 1) = 1
              /\ \/ Bit(q, 0) = 1
                 \/ \E k \in 0..(s - 2) : Bit(a, k) = 1
        q2 == IF up THEN MulSmallAdd(q, 1, 1, 1) ELSE q
        carried == BitLen(q2) > MantDig
        m == IF carried THEN ShiftRight(q2, 1) ELSE q2
        e == IF carried THEN e0 + s + 1 ELSE e0 + s
    IN IF e + MantDig > MaxExp THEN FloatInf(neg)
       ELSE [cls |-> "finite", neg |-> neg, m |-> m, e |-> e]

\* the longest decimal magnitude below 2^1024 has 309 digits
MaxFiniteDigits == 309

\* float(n) as int * float computes it: "inf" stands for OverflowError
IntToFloat(n) ==
    IF n.mag = <<>> THEN FloatZero
    ELSE IF Len(n.mag) > MaxFiniteDigits THEN FloatInf(n.neg)
    ELSE RoundToDouble(n.neg, BigOfMag(n.mag), 0)

\* x * y for finite x and y whose product is not subnormal
FloatMul(x, y) ==
    IF x.cls = "zero" \/ y.cls = "zero"
    THEN [FloatZero EXCEPT !.neg = (x.neg # y.neg)]
    ELSE RoundToDouble(x.neg # y.neg, Trim(BigMul(x.m, y.m, 1)), x.e + y.e)

\* x > 0
FloatPositive(x) == x.cls # "zero" /\ ~x.neg

\* the literal 0.9
Float09 == [cls |-> "finite", neg |-> FALSE, m |-> <<19661, 6553, 13107, 230>>, e |-> -53]

\* the literal 1.10
Float110 == [cls |-> "finite", neg |-> FALSE, m |-> <<6554, 13107, 26214, 140>>, e |-> -52]

(***************************************************************************)
(* JSON / Python values.                                                   *)
(***************************************************************************)
Null == [kind |-> "null", s |-> "", i |-> PyInt(0), f |-> FloatZero]
Str(x) == [kind |-> "str", s |-> x, i |-> PyInt(0), f |-> FloatZero]
IntVal(n) == [kind |-> "int", s |-> "", i |-> n, f |-> FloatZero]
FloatVal(x) == [kind |-> "float", s |-> "", i |-> PyInt(0), f |-> x]
Num(x) == IntVal(PyInt(x))

EmptyDict == [k \in {} |-> Null]

\* dict.get(key, default)
dict_get(d, k, default) == IF k \in DOMAIN d THEN d[k] ELSE default

\* Python truthiness of a value: None, "", 0 and 0.0 are falsy
Truthy(v) == /\ v.kind # "null"
             /\ (v.kind = "str" => v.s # "")
             /\ (v.kind = "int" => v.i.mag # <<>>)
             /\ (v.kind = "float" => v.f.cls # "zero")

(***************************************************************************)
(* Command arguments and int().                                            *)
(***************************************************************************)
\* the code points of the zeros of the decimal digits (category Nd); each
\* is followed by the digits one to nine of its script
DigitZeros ==
    { 48, 1632, 1776, 1984, 2406, 2534, 2662, 2790, 2918, 3046, 3174, 3302,
      3430, 3558, 3664, 3792, 3872, 4160, 4240, 6112, 6160, 6470, 6608,
      6784, 6800, 6992, 7088, 7232, 7248, 42528, 43216, 43264, 43472,
      43504, 43600, 44016, 65296, 66720, 68912, 69734, 69872, 69942, 70096,
      70384, 70736, 70864, 71248, 71360, 71472, 71904, 72016, 72784, 73040,
      73120, 92768, 92864, 93008, 120782, 120792, 120802, 120812, 120822,
      123200, 123632, 125264, 130032 }

\* the code points int() skips around the number: the ASCII blanks and
\* the non-ASCII spaces (not the separators 28 to 31)
Whitespace ==
    { 9, 10, 11, 12, 13, 32, 133, 160, 5760, 8192, 8193,
      8194, 8195, 8196, 8197, 8198, 8199, 8200, 8201, 8202, 8232, 8233,
      8239, 8287, 12288 }

Plus == 43
Minus == 45
Underscore == 95
Space == 32

Digits == UNION { z..(z + 9) : z \in DigitZeros }

IsDigit(c) == \E z \in DigitZeros : z <= c /\ c <= z + 9

DigitVal(c) == c - (CHOOSE z \in DigitZeros : z <= c /\ c <= z + 9)

\* int() ignores the whitespace around the number
Strip(tok) ==
    LET ns == {i \in 1..Len(tok) : tok[i] \notin Whitespace} IN
    IF ns = {} THEN <<>>
    ELSE SubSeq(tok,
                CHOOSE i \in ns : \A j \in 1..(i - 1) : tok[j] \in Whitespace,
                CHOOSE i \in ns : \A j \in (i + 1)..Len(tok) : tok[j] \in Whitespace)

\* the token without whitespace and without its optional sign
Unsigned(tok) ==
    LET t == Strip(tok) IN
    IF t # <<>> /\ t[1] \in {Plus, Minus} THEN Tail(t) ELSE t

\* the longest digit string int() converts (sys.int_info.default_max_str_digits)
IntMaxStrDigits == 4300

\* int(tok) does not raise ValueError: optional sign, then decimal digits of
\* any script that may be grouped by single underscores, at most
\* IntMaxStrDigits of them
IsIntLiteral(tok) ==
    LET b == Unsigned(tok) IN
    /\ b # <<>>
    /\ \A i \in 1..Len(b) : IsDigit(b[i]) \/ b[i] = Underscore
    /\ IsDigit(b[1])
    /\ IsDigit(b[Len(b)])
    /\ \A i \in 1..(Len(b) - 1) : ~(b[i] = Underscore /\ b[i + 1] = Underscore)
    /\ Len(SelectSeq(b, IsDigit)) <= IntMaxStrDigits

\* the decimal digits of the token, leading zeros removed
Magnitude(tok) ==
    LET ds == SelectSeq(Unsigned(tok), IsDigit)
        d == [i \in 1..Len(ds) |-> DigitVal(ds[i])]
        nz == {i \in 1..Len(d) : d[i] # 0}
    IN IF nz = {} THEN <<>>
       ELSE SubSeq(d, CHOOSE i \in nz : \A j \in 1..(i - 1) : d[j] = 0, Len(d))

\* int(tok) for a token that is an integer literal
IntValue(tok) ==
    LET t == Strip(tok) IN
    [neg |-> t[1] = Minus /\ Magnitude(tok) # <<>>, mag |-> Magnitude(tok)]

\* " ".join(words)
RECURSIVE Join(_)
Join(words) ==
    IF words = <<>> THEN <<>>
    ELSE IF Len(words) = 1 THEN words[1]
    ELSE words[1] \o <<Space>> \o Join(Tail(words))

NoQuery == [some |-> FALSE, text |-> <<>>]
Query(t) == [some |-> TRUE, text |-> t]

\* search_query = " ".join(args[1:]) if len(args) > 1 else None
SearchQueryOf(a) == IF Len(a) > 1 THEN Query(Join(Tail(a))) ELSE NoQuery

\* "ebay"
Ebay == <<101, 98, 97, 121>>

\* search_query == "ebay"
IsEbay(q) == q.some /\ q.text = Ebay

NeedsTranslationAlways(q) == TRUE

\* if search_query:
NeedsTranslation(q) == q.some /\ q.text # <<>>

(***************************************************************************)
(* Replies.                                                                *)
(***************************************************************************)
WelcomeMsg == "Welcome! Use /car [amount] to find a car around that price."
UsageMsg == "Please provide an amount: /car [amount] [optional: description]"
InvalidAmountMsg == "Please provide a valid number for the amount."
NoMatchMsg == "Sorry, I couldn't find any cars matching your criteria. Try adjusting your search parameters."
TimeoutMsg == "The request timed out. Please try again."
FetchErrorMsg == "An error occurred while fetching car data. Please try again."
GenericErrorMsg == "An error occurred. Please try again."

NoCaption == <<>>
TextReply(t) == [type |-> "text", text |-> <<Str(t)>>, photo |-> Null, caption |-> NoCaption]
PhotoReply(p) == [type |-> "photo", text |-> <<>>, photo |-> p, caption |-> NoCaption]

(***************************************************************************)
(* Price window and base parameters of the listings request.               *)
(***************************************************************************)
ApiKey == Str("AUTO_DEV_API_KEY")

\* int * float converts the int first: OverflowError from 2^1024 - 2^970 on
PriceOverflows(target_price) == IntToFloat(target_price).cls = "inf"

\* price_min = max(0, target_price * 0.9): the int 0 unless the product is
\* greater
PriceMin(target_price) ==
    LET x == FloatMul(IntToFloat(target_price), Float09) IN
    IF FloatPositive(x) THEN FloatVal(x) ELSE Num(0)

\* price_max = target_price * 1.10
PriceMax(target_price) == FloatVal(FloatMul(IntToFloat(target_price), Float110))

BaseParams(target_price) ==
    [k \in {"apikey", "price_min", "price_max", "page", "exclude_no_price"} |->
        CASE k = "apikey" -> ApiKey
          [] k = "price_min" -> PriceMin(target_price)
          [] k = "price_max" -> PriceMax(target_price)
          [] k = "page" -> Num(1)
          [] k = "exclude_no_price" -> Str("true")]

(***************************************************************************)
(* The parameter schema sent to the completion service.                    *)
(***************************************************************************)
FilterKeys == {"make", "model", "exterior_color[]", "body_style[]", "category",
               "condition[]", "features[]", "transmission[]", "driveline[]",
               "sort_filter"}

ClosedKeys == FilterKeys \ {"make", "model"}

Enum(k) ==
    CASE k = "exterior_color[]" -> {"black", "silver", "white", "gray", "red", "green",
                                    "yellow", "blue", "brown", "orange", "purple", "gold"}
      [] k = "body_style[]" -> {"convertible", "coupe", "minivan", "crossover", "sedan",
                                "suv", "truck", "wagon"}
      [] k = "category" -> {"american", "classic", "commuter", "electric", "family",
                            "fuel_efficient", "hybrid", "muscle", "sport", "supercar"}
      [] k = "condition[]" -> {"new", "used", "certified pre-owned"}
      [] k = "features[]" -> {"backup_camera", "bluetooth", "heated_seats", "leather",
                              "navigation", "sunroof"}
      [] k = "transmission[]" -> {"automatic", "manual"}
      [] k = "driveline[]" -> {"RWD", "FWD", "4X4", "AWD"}
      [] k = "sort_filter" -> {"price:asc", "price:desc", "year:desc", "mileage:asc"}

(***************************************************************************)
(* Merge of the translated filters into the request parameters.            *)
(***************************************************************************)
dict_update_validated(d, e) ==
    LET ok == {k \in DOMAIN e :
                  /\ k \in FilterKeys
                  /\ k \in ClosedKeys => (e[k].kind = "str" /\ e[k].s \in Enum(k))}
    IN [k \in DOMAIN d \cup ok |-> IF k \in ok THEN e[k] ELSE d[k]]

\* d.update(e): the pairs of e are added to d, replacing the keys d has
dict_update(d, e) ==
    [k \in DOMAIN d \cup DOMAIN e |-> IF k \in DOMAIN e THEN e[k] ELSE d[k]]

(***************************************************************************)
(* Query translator.  The completion service is an external collaborator:  *)
(* the call raises, or returns a message content that is None, empty,      *)
(* whitespace, text that is not JSON, a JSON value that is not an object,  *)
(* or a JSON object written as a sequence of key/value pairs.              *)
(***************************************************************************)
NoCompletion == [form |-> "pending", pairs |-> <<>>]

NonObjectForms == {"array", "number", "string", "null"}

\* json.loads of an object: a dict, the last pair of a repeated key wins
json_loads_object(pairs) ==
    [k \in {pairs[i].key : i \in 1..Len(pairs)} |->
        LET last == CHOOSE i \in 1..Len(pairs) :
                        /\ pairs[i].key = k
                        /\ \A j \in (i + 1)..Len(pairs) : pairs[j].key # k
        IN pairs[last].value]

FilterNullsNot(d) == d

\* {k: v for k, v in params.items() if v is not None}
FilterNulls(d) == [k \in {x \in DOMAIN d : d[x] # Null} |-> d[k]]

\* the body of the outer try of parse_car_query, before its handlers
ParseBody(c) ==
    CASE c.form = "exception" -> [exc |-> "APIError", value |-> EmptyDict]
      [] c.form \in {"none", "empty", "whitespace"} -> [exc |-> "none", value |-> EmptyDict]
      [] c.form = "malformed" -> [exc |-> "JSONDecodeError", value |-> EmptyDict]
      [] c.form \in NonObjectForms -> [exc |-> "AttributeError", value |-> EmptyDict]
      [] c.form = "object" -> [exc |-> "none", value |-> FilterNulls(json_loads_object(c.pairs))]

parse_car_query_narrow(c) ==
    LET r == ParseBody(c) IN
    IF r.exc = "AttributeError" THEN [raised |-> TRUE, value |-> EmptyDict]
    ELSE [raised |-> FALSE, value |-> r.value]

\* parse_car_query: both handlers return {}
parse_car_query(c) ==
    LET r == ParseBody(c) IN
    IF r.exc = "JSONDecodeError" THEN [raised |-> FALSE, value |-> EmptyDict]
    ELSE IF r.exc # "none" THEN [raised |-> FALSE, value |-> EmptyDict]
    ELSE [raised |-> FALSE, value |-> r.value]

(***************************************************************************)
(* Listings response, selection and fallback.                              *)
(***************************************************************************)
NoResponse == [status |-> "pending", body |-> "none", records |-> <<>>]

\* the thresholds of the empty-result fallback
BetMoreBelow == 1000
BetLessAbove == 25000000

BetMorePhoto == Str("betmore.png")
BetLessPhoto == Str("betless.png")

EmptyResultReplyInclusive(target_price) ==
    IF ~IntLess(PyInt(BetMoreBelow), target_price) THEN PhotoReply(BetMorePhoto)
    ELSE IF ~IntLess(target_price, PyInt(BetLessAbove)) THEN PhotoReply(BetLessPhoto)
    ELSE TextReply(NoMatchMsg)

\* if record_count == 0: the reply chosen by the amount
EmptyResultReply(target_price) ==
    IF IntLess(target_price, PyInt(BetMoreBelow)) THEN PhotoReply(BetMorePhoto)
    ELSE IF IntLess(PyInt(BetLessAbove), target_price) THEN PhotoReply(BetLessPhoto)
    ELSE TextReply(NoMatchMsg)

\* len(data.get('records', []))
record_count(r) == IF r.body = "object_records" THEN Len(r.records) ELSE 0

\* f"With your ${target_price}, you could have bought a {year} {make} {model}!"
CarMessage(target_price, listing) ==
    <<Str("With your $"), IntVal(target_price), Str(", you could have bought a "),
      dict_get(listing, "year", Str("N/A")), Str(" "),
      dict_get(listing, "make", Str("N/A")), Str(" "),
      dict_get(listing, "model", Str("N/A")), Str("!")>>

\* the reply for a chosen listing: photo with caption, or text only
ListingReply(target_price, listing) ==
    LET photo_url == dict_get(listing, "primaryPhotoUrl", Null) IN
    IF Truthy(photo_url)
    THEN [type |-> "photo", text |-> <<>>, photo |-> photo_url,
          caption |-> CarMessage(target_price, listing)]
    ELSE [type |-> "text", text |-> CarMessage(target_price, listing),
          photo |-> Null, caption |-> NoCaption]

ErrorReplyMerged(exc) ==
    IF exc \in {"Timeout", "RequestException"} THEN TextReply(FetchErrorMsg)
    ELSE TextReply(GenericErrorMsg)

\* the three handlers of get_autodev_car
ErrorReply(exc) ==
    IF exc = "Timeout" THEN TextReply(TimeoutMsg)
    ELSE IF exc = "RequestException" THEN TextReply(FetchErrorMsg)
    ELSE TextReply(GenericErrorMsg)

\* the exceptions the try block of get_autodev_car can end with for a
\* response ("none": the block runs to its return)
ResponseExceptions(r) ==
    CASE r.status = "timeout" -> {"Timeout"}
      [] r.status \in {"connection_error", "http_error"} -> {"RequestException"}
      \* response.json() raises requests' JSONDecodeError (a RequestException)
      \* or, before requests 2.27, a plain ValueError
      [] r.status = "ok" /\ r.body = "not_json" -> {"RequestException", "ValueError"}
      \* data.get on a list, len(None)
      [] r.status = "ok" /\ r.body \in {"array", "object_records_null"} -> {"Exception"}
      [] OTHER -> {"none"}

\* the replies get_autodev_car sends for a response that raised nothing
SelectionReplies(target_price, r) ==
    IF record_count(r) = 0 THEN <<EmptyResultReply(target_price)>>
    ELSE <<>>

(***************************************************************************)
(* Inputs of one invocation.                                               *)
(***************************************************************************)
SeqsUpTo(S, n) == UNION {[1..m -> S] : m \in 0..n}

\* the number of digits of the amount that is too large for a float
HugeDigits == MaxFiniteDigits + 1

\* first arguments: "abc", "-5", "0", "999", "1000", "25000000", "25000001",
\* the ARABIC-INDIC DIGIT THREE, and a one followed by zeros
FirstTokens ==
    { <<97, 98, 99>>,
      <<45, 53>>,
      <<48>>,
      <<57, 57, 57>>,
      <<49, 48, 48, 48>>,
      <<50, 53, 48, 48, 48, 48, 48, 48>>,
      <<50, 53, 48, 48, 48, 48, 48, 49>>,
      <<1635>>,
      [i \in 1..HugeDigits |-> IF i = 1 THEN 49 ELSE 48] }

\* words of the description: "ebay", "bmw"
Words == { Ebay, <<98, 109, 119>> }

ArgLists ==
    {<<>>} \cup { <<t>> \o d : t \in FirstTokens, d \in SeqsUpTo(Words, MaxArgs - 1) }

CompletionKeys == {"exterior_color[]", "page", "turbo"}
CompletionValues == {Null, Str("red"), Str("teal"), Num(2)}
CompletionPairs == [key : CompletionKeys, value : CompletionValues]

Completions ==
    [form : {"exception", "none", "empty", "whitespace", "malformed"} \cup NonObjectForms,
     pairs : {<<>>}]
    \cup [form : {"object"}, pairs : SeqsUpTo(CompletionPairs, MaxPairs)]

RecFull == [k \in {"year", "make", "model", "primaryPhotoUrl"} |->
              CASE k = "year" -> Num(2015)
                [] k = "make" -> Str("BMW")
                [] k = "model" -> Str("M3")
                [] k = "primaryPhotoUrl" -> Str("https://img/1.jpg")]
RecBare == [k \in {"make"} |-> Str("Kia")]

Records == {RecFull, RecBare}

Responses ==
    [status : {"timeout", "connection_error", "http_error"}, body : {"none"}, records : {<<>>}]
    \cup [status : {"ok"}, body : {"not_json", "array", "object_no_records", "object_records_null"},
          records : {<<>>}]
    \cup [status : {"ok"}, body : {"object_records"}, records : SeqsUpTo(Records, MaxRecords)]

(***************************************************************************)
(* The invocation.                                                         *)
(***************************************************************************)
Init ==
    /\ pc = "idle"
    /\ command = "none"
    /\ args = <<>>
    /\ amount = PyInt(0)
    /\ search_query = NoQuery
    /\ completion = NoCompletion
    /\ additional_params = EmptyDict
    /\ params = EmptyDict
    /\ calls = <<>>
    /\ completion_calls = <<>>
    /\ listing_requests = <<>>
    /\ response = NoResponse
    /\ replies = <<>>

\* start: the handler of /start, whatever follows the command
start ==
    /\ pc = "idle"
    /\ command' = "start"
    /\ \E a \in ArgLists : args' = a
    /\ replies' = Append(replies, TextReply(WelcomeMsg))
    /\ pc' = "done"
    /\ UNCHANGED <<amount, search_query, completion, additional_params, params,
                   calls, completion_calls, listing_requests, response>>

\* get_random_car up to its first await: the argument checks, then the
\* start of get_autodev_car (base parameters, call of the translator)
get_random_car ==
    /\ pc = "idle"
    /\ command' = "car"
    /\ \E a \in ArgLists :
        /\ args' = a
        /\ IF a = <<>>
           THEN /\ replies' = Append(replies, TextReply(UsageMsg))
                /\ pc' = "done"
                /\ UNCHANGED <<amount, search_query, params, calls, completion_calls>>
           ELSE IF ~IsIntLiteral(a[1])
           THEN /\ replies' = Append(replies, TextReply(InvalidAmountMsg))
                /\ pc' = "done"
                /\ UNCHANGED <<amount, search_query, params, calls, completion_calls>>
           ELSE /\ amount' = IntValue(a[1])
                /\ search_query' = SearchQueryOf(a)
                /\ IF IsEbay(search_query')
                   THEN /\ pc' = "done"
                        /\ UNCHANGED <<replies, params, calls, completion_calls>>
                   ELSE IF PriceOverflows(amount')
                   \* OverflowError building params, caught by get_random_car
                   THEN /\ replies' = Append(replies, TextReply(GenericErrorMsg))
                        /\ pc' = "done"
                        /\ UNCHANGED <<params, calls, completion_calls>>
                   ELSE /\ params' = BaseParams(amount')
                        /\ UNCHANGED replies
                        /\ IF NeedsTranslation(search_query')
                           THEN /\ completion_calls' = Append(completion_calls, search_query'.text)
                                /\ calls' = Append(calls, "completion")
                                /\ pc' = "await_completion"
                           ELSE /\ pc' = "send_request"
                                /\ UNCHANGED <<calls, completion_calls>>
    /\ UNCHANGED <<completion, additional_params, listing_requests, response>>

\* the completion call returns or raises: the rest of parse_car_query and
\* params.update(additional_params); an exception leaving parse_car_query
\* would reach the handler of get_random_car
completion_returns ==
    /\ pc = "await_completion"
    /\ \E c \in Completions :
        LET r == parse_car_query(c) IN
        /\ completion' = c
        /\ IF r.raised
           THEN /\ replies' = Append(replies, TextReply(GenericErrorMsg))
                /\ pc' = "done"
                /\ UNCHANGED <<additional_params, params>>
           ELSE /\ additional_params' = r.value
                /\ params' = dict_update(params, r.value)
                /\ pc' = "send_request"
                /\ UNCHANGED replies
    /\ UNCHANGED <<command, args, amount, search_query, calls, completion_calls,
                   listing_requests, response>>

\* requests.get(url, params=params, timeout=10)
send_request ==
    /\ pc = "send_request"
    /\ listing_requests' = Append(listing_requests, params)
    /\ calls' = Append(calls, "listings")
    /\ pc' = "await_response"
    /\ UNCHANGED <<command, args, amount, search_query, completion, additional_params,
                   params, completion_calls, response, replies>>

\* the response arrives: the rest of get_autodev_car
handle_response ==
    /\ pc = "await_response"
    /\ \E r \in Responses :
        \E exc \in ResponseExceptions(r) :
            /\ response' = r
            /\ replies' = IF exc = "none"
                          THEN replies \o SelectionReplies(amount, r)
                          ELSE Append(replies, ErrorReply(exc))
    /\ pc' = "done"
    /\ UNCHANGED <<command, args, amount, search_query, completion, additional_params,
                   params, calls, completion_calls, listing_requests>>

\* the two handlers main registers, and the steps of /car
Next ==
    \/ start
    \/ get_random_car
    \/ completion_returns
    \/ send_request
    \/ handle_response

Spec == Init /\ [][Next]_vars

(***************************************************************************)
(* Properties.                                                             *)
(***************************************************************************)
BaseKeys == {"apikey", "price_min", "price_max", "page", "exclude_no_price"}

FloatSign(x) == IF x.cls = "zero" THEN 0 ELSE IF x.neg THEN 0 - 1 ELSE 1

FloatMagLess(a, b) ==
    \/ a.cls = "zero" /\ b.cls # "zero"
    \/ a.cls = "finite" /\ b.cls = "inf"
    \/ /\ a.cls = "finite" /\ b.cls = "finite"
       /\ \/ a.e < b.e
          \/ /\ a.e = b.e
             /\ \E i \in 1..Len(a.m) :
                    /\ a.m[i] < b.m[i]
                    /\ \A j \in (i + 1)..Len(a.m) : a.m[j] = b.m[j]

FloatLess(x, y) ==
    \/ FloatSign(x) < FloatSign(y)
    \/ FloatSign(x) = 1 /\ FloatSign(y) = 1 /\ FloatMagLess(x, y)
    \/ FloatSign(x) = 0 - 1 /\ FloatSign(y) = 0 - 1 /\ FloatMagLess(y, x)

\* v <= w for two numeric parameter values
NumLeq(v, w) ==
    LET fl(u) == IF u.kind = "int" THEN IntToFloat(u.i) ELSE u.f IN
    ~FloatLess(fl(w), fl(v))

ListingsSucceeded ==
    /\ pc = "done"
    /\ response.status = "ok"
    /\ response.body \in {"object_no_records", "object_records"}

NoRecords == ListingsSucceeded /\ record_count(response) = 0

SomeRecords == ListingsSucceeded /\ record_count(response) > 0

\* the JSON object the completion service returned, if it returned one
ReturnedObject ==
    IF completion.form = "object" THEN json_loads_object(completion.pairs) ELSE EmptyDict

NonNullKeys(obj) == {k \in DOMAIN obj : obj[k] # Null}

TranslationDegraded ==
    completion.form \in {"exception", "none", "empty", "whitespace", "malformed",
                         "array", "number", "string", "null"}

\* C1: when the listings request succeeds with a non-empty records list,
\* exactly one reply is sent, built from one of the returned records: a
\* photo with the message as caption when that record has a photo URL, the
\* message as text otherwise.
C1_ListingReplySent ==
    SomeRecords =>
        \E i \in 1..Len(response.records) :
            replies = <<ListingReply(amount, response.records[i])>>

\* C2: every invocation of the /car handler has sent at least one reply
\* when it ends.
C2_AlwaysReplies == (command = "car" /\ pc = "done") => Len(replies) >= 1

\* C3: with no argument the only reply is the usage message, with a first
\* argument that is not a non-negative integer the only reply is the
\* validation message, and in both cases no outbound call is made.
C3_InvalidArgsStop ==
    /\ (command = "car" /\ args = <<>>) =>
            /\ pc = "done"
            /\ replies = <<TextReply(UsageMsg)>>
            /\ calls = <<>>
    /\ (command = "car" /\ args # <<>>
          /\ ~(IsIntLiteral(args[1]) /\ ~IntValue(args[1]).neg)) =>
            /\ pc = "done"
            /\ replies = <<TextReply(InvalidAmountMsg)>>
            /\ calls = <<>>

\* C4: when the listings request succeeds with no records, exactly one
\* reply is sent, chosen by the amount: below 1000 the bet-more image,
\* above 25,000,000 the bet-less image, both without caption, and the
\* no-match text for every amount from 1000 to 25,000,000 inclusive.
C4_EmptyResultFallback ==
    NoRecords =>
        /\ Len(replies) = 1
        /\ replies[1] =
             IF IntLess(amount, PyInt(1000))
             THEN [type |-> "photo", text |-> <<>>, photo |-> Str("betmore.png"),
                   caption |-> <<>>]
             ELSE IF IntLess(PyInt(25000000), amount)
             THEN [type |-> "photo", text |-> <<>>, photo |-> Str("betless.png"),
                   caption |-> <<>>]
             ELSE TextReply(NoMatchMsg)

C4_Witness ==
    /\ NoRecords
    /\ amount = PyInt(25000000)
    /\ replies = <<TextReply(NoMatchMsg)>>

\* C5: when the completion call fails or its output is empty, whitespace,
\* malformed or not a JSON object, the translator returns an empty filter
\* set without raising, the listings request is still issued with only the
\* base parameters, and no reply is sent for the translation failure.
C5_TranslatorDegrades ==
    TranslationDegraded =>
        LET base == BaseParams(amount) IN
        /\ additional_params = EmptyDict
        /\ pc \in {"send_request", "await_response", "done"}
        /\ params = base
        /\ pc \in {"send_request", "await_response"} => replies = <<>>
        /\ pc \in {"await_response", "done"} => listing_requests = <<base>>
        /\ Len(replies) <= 1

C5_Witness ==
    /\ pc = "done"
    /\ completion.form = "array"
    /\ listing_requests = <<BaseParams(amount)>>

\* C6: for a non-negative amount every listings request carries the five
\* base parameters with the price window of the amount, price_min <=
\* price_max, whatever filter set the translator returned.
C6_BaseParamsKept ==
    \A i \in 1..Len(listing_requests) :
        ~amount.neg =>
            /\ LET base == BaseParams(amount) IN
               \A k \in BaseKeys :
                   /\ k \in DOMAIN listing_requests[i]
                   /\ listing_requests[i][k] = base[k]
            /\ NumLeq(listing_requests[i]["price_min"], listing_requests[i]["price_max"])

\* C7: when the completion output parses as a JSON object the translator
\* returns exactly the pairs of that object whose value is not null, key
\* and value unchanged.
C7_NonNullPairsReturned ==
    completion.form = "object" =>
        LET obj == json_loads_object(completion.pairs) IN
        /\ \A k \in DOMAIN additional_params :
               /\ additional_params[k] # Null
               /\ k \in DOMAIN obj
               /\ additional_params[k] = obj[k]
        /\ \A k \in DOMAIN obj :
               obj[k] # Null => /\ k \in DOMAIN additional_params
                                /\ additional_params[k] = obj[k]

C7_Witness ==
    /\ completion.form = "object"
    /\ \E i \in 1..Len(completion.pairs) :
           completion.pairs[i] = [key |-> "turbo", value |-> Null]
    /\ DOMAIN additional_params = {"exterior_color[]"}
    /\ additional_params["exterior_color[]"] = Str("red")

\* C8: when the listings request times out or returns a non-2xx status,
\* exactly one reply is sent, the timeout text or the fetch-error text,
\* and the request is not issued again.
C8_UpstreamFailureReply ==
    (pc = "done" /\ response.status \in {"timeout", "http_error"}) =>
        /\ replies = <<TextReply(IF response.status = "timeout"
                                 THEN TimeoutMsg ELSE FetchErrorMsg)>>
        /\ Len(listing_requests) = 1

C8_Witness ==
    /\ pc = "done"
    /\ response.status = "timeout"
    /\ replies = <<TextReply(TimeoutMsg)>>

\* C9: the translator is called at most once and only for a non-empty
\* description (the arguments after the amount joined by spaces); the
\* listings request is issued at most once and only after the translator
\* call, if any, has returned.
C9_CallsOnceInOrder ==
    /\ calls \in {<<>>, <<"completion">>, <<"listings">>, <<"completion", "listings">>}
    /\ Len(completion_calls) <= 1
    /\ Len(listing_requests) <= 1
    /\ completion_calls # <<>> =>
           /\ Len(args) > 1
           /\ completion_calls[1] = Join(Tail(args))
           /\ completion_calls[1] # <<>>
    /\ pc = "await_completion" => calls = <<"completion">>

C9_Witness ==
    /\ pc = "done"
    /\ calls = <<"completion", "listings">>
    /\ completion.form = "exception"

\* C10 (as stated): every parameter of a listings request other than the
\* five base parameters is one of the ten filter keys and, for a key with a
\* closed vocabulary, carries a value of that key's enumeration.
C10_OnlyEnumFiltersForwarded ==
    \A i \in 1..Len(listing_requests) :
        \A k \in DOMAIN listing_requests[i] \ BaseKeys :
            /\ k \in FilterKeys
            /\ k \in ClosedKeys =>
                   /\ listing_requests[i][k].kind = "str"
                   /\ listing_requests[i][k].s \in Enum(k)

\* C10 (amended): the parameters of a listings request whose name is not
\* one of the five base names are exactly the non-null pairs of the JSON
\* object the completion service returned whose key is not one of those
\* names, each with its value unchanged: no key or value is checked against
\* the filter keys or their enumerations.
C10_FiltersForwardedVerbatim ==
    \A i \in 1..Len(listing_requests) :
        LET req == listing_requests[i]
            obj == ReturnedObject
            nn == NonNullKeys(obj) \ BaseKeys
        IN /\ DOMAIN req \ BaseKeys = nn
           /\ \A k \in nn : req[k] = obj[k]

\* an unknown key and a value outside its key's enumeration reach the request
C10_Witness ==
    /\ Len(listing_requests) = 1
    /\ DOMAIN listing_requests[1] \ BaseKeys = {"turbo", "exterior_color[]"}
    /\ listing_requests[1]["turbo"] = Num(2)
    /\ listing_requests[1]["exterior_color[]"] = Str("teal")

====
